---- MODULE Spec2Model ----
(***************************************************************************)
(* Model of download_fonts.py: the @font-face extraction pipeline          *)
(* (classify_font, extract_font_url, parse_font_face_rule,                 *)
(* parse_css_with_regex, parse_css_for_fonts), the page collector, the     *)
(* post-processing (deduplicate_fonts, filter_fonts) and main.             *)
(*                                                                         *)
(* Text is modelled as a sequence of atoms (short strings): a regular      *)
(* expression of the source is an operator that scans such a sequence the  *)
(* way re.search scans characters.  CSS inputs are generated from a        *)
(* structured description and rendered to atoms, so that the code's        *)
(* parsing is a real inverse that can fail.                                *)
(***************************************************************************)
EXTENDS Integers, Sequences, FiniteSets, TLC

VARIABLES
    pc,               \* position of the modelled run
    family,           \* classify_font: the family argument
    category,         \* classify_font: the returned FontCategory
    rule,             \* one @font-face block (structured description)
    path,             \* "structured" (parse_font_face_rule) or "regex" (parse_css_with_regex)
    fonts,            \* the list[FontFace] named fonts in the function under study
    css_text,         \* the CSS text being scanned
    err_at,           \* where the structured parse raises (Len + 1: nowhere)
    args,             \* the parsed command line
    categories,       \* main: set[FontCategory] | None
    site,             \* the page and the stylesheets behind its URLs
    all_fonts,        \* collect_fonts_from_page: the accumulated list
    css_i,            \* collect_fonts_from_page: position in css_urls
    imp_i,            \* collect_fonts_from_page: position among the @import matches
    fetches,          \* every client.get issued while collecting, in order
    dl_i,             \* main: position in the download loop
    results,          \* main: result.success of each download_font call
    success_count,    \* main
    downloaded_paths, \* main
    conv_i,           \* main: position in the conversion loop
    converted,        \* main: outcome of each convert_woff2_to_ttf call
    exit_code         \* main: the returned status

classifyVars == <<family, category>>
ruleVars == <<rule, path>>
scanVars == <<css_text, err_at>>
argVars == <<args, categories>>
collectVars == <<site, all_fonts, css_i, imp_i, fetches>>
mainVars == <<dl_i, results, success_count, downloaded_paths, conv_i, converted, exit_code>>
vars == <<pc, fonts, classifyVars, ruleVars, scanVars, argVars, collectVars, mainVars>>

(***************************************************************************)
(* Bounds of the model.                                                    *)
(***************************************************************************)
MaxFamilyLen == 3
MaxSrc == 2
MaxRules == 2
MaxFonts == 3
MaxLinks == 2

(***************************************************************************)
(* Generic sequence helpers.                                               *)
(***************************************************************************)
RECURSIVE SeqsUpTo(_, _)
SeqsUpTo(S, n) ==
    IF n = 0 THEN {<<>>}
    ELSE LET shorter == SeqsUpTo(S, n - 1)
         IN shorter \cup {Append(s, x) : s \in {t \in shorter : Len(t) = n - 1}, x \in S}

RECURSIVE Concat(_)
Concat(ss) == IF ss = <<>> THEN <<>> ELSE Head(ss) \o Concat(Tail(ss))

Last(s) == s[Len(s)]

(***************************************************************************)
(* FontCategory (src lines 29-34) and the classifier's pattern lists.      *)
(* A pattern is a sequence of elements: a literal atom, \s* or .* .        *)
(***************************************************************************)
FontCategory == {"serif", "sans-serif", "monospace", "display", "unknown"}

Lit(a) == [t |-> "lit", a |-> a]
WsStar == [t |-> "ws"]
AnyStar == [t |-> "any"]

SERIF_PATTERNS ==
    << <<Lit("serif")>>, <<Lit("georgia")>>, <<Lit("times")>>, <<Lit("garamond")>>,
       <<Lit("palatino")>>, <<Lit("cambria")>>, <<Lit("didot")>>, <<Lit("bodoni")>>,
       <<Lit("caslon")>>, <<Lit("baskerville")>>, <<Lit("minion")>>, <<Lit("sabon")>>,
       <<Lit("bembo")>>, <<Lit("plantin")>>,
       <<Lit("econ"), AnyStar, Lit("serif")>>,
       <<Lit("economist"), AnyStar, Lit("serif")>> >>

SANS_PATTERNS ==
    << <<Lit("sans")>>, <<Lit("arial")>>, <<Lit("helvetica")>>, <<Lit("verdana")>>,
       <<Lit("tahoma")>>, <<Lit("roboto")>>,
       <<Lit("open"), WsStar, Lit("sans")>>,
       <<Lit("lato")>>, <<Lit("montserrat")>>, <<Lit("proxima")>>, <<Lit("futura")>>,
       <<Lit("avenir")>>, <<Lit("gotham")>>, <<Lit("gill")>>, <<Lit("franklin")>>,
       <<Lit("econ"), AnyStar, Lit("sans")>>,
       <<Lit("economist"), AnyStar, Lit("sans")>> >>

MONO_PATTERNS ==
    << <<Lit("mono")>>, <<Lit("courier")>>, <<Lit("consolas")>>, <<Lit("menlo")>>,
       <<Lit("fira"), WsStar, Lit("code")>>,
       <<Lit("source"), WsStar, Lit("code")>>,
       <<Lit("jetbrains")>> >>

\* The atoms family names are built from.  No atom contains a pattern
\* literal as a proper part, so matching atoms is matching characters.
FamilyAtoms == {"Fira", "Code", " ", "Mono", "Sans", "Serif", "Georgia", "Arial", "Econ", "X"}

\* str.lower() on one atom.
LowerAtom(a) ==
    CASE a = "Fira" -> "fira"
      [] a = "Code" -> "code"
      [] a = "Mono" -> "mono"
      [] a = "Sans" -> "sans"
      [] a = "Serif" -> "serif"
      [] a = "Georgia" -> "georgia"
      [] a = "Arial" -> "arial"
      [] a = "Econ" -> "econ"
      [] a = "X" -> "x"
      [] OTHER -> a

Lower(s) == [i \in 1..Len(s) |-> LowerAtom(s[i])]

\* Does pattern p match s starting exactly at position i (re.match at i)?
RECURSIVE MatchAt(_, _, _)
MatchAt(p, s, i) ==
    IF p = <<>> THEN TRUE
    ELSE LET e == Head(p)
         IN CASE e.t = "lit" -> i <= Len(s) /\ s[i] = e.a /\ MatchAt(Tail(p), s, i + 1)
              [] e.t = "ws" -> \/ MatchAt(Tail(p), s, i)
                               \/ i <= Len(s) /\ s[i] = " " /\ MatchAt(p, s, i + 1)
              [] e.t = "any" -> \/ MatchAt(Tail(p), s, i)
                                \/ i <= Len(s) /\ MatchAt(p, s, i + 1)

\* re.search(pattern, s) is not None
re_search(p, s) == \E i \in 1..(Len(s) + 1) : MatchAt(p, s, i)

\* The for-loop "for pattern in PATTERNS: if re.search(...): return".
RECURSIVE AnyPattern(_, _)
AnyPattern(patterns, s) ==
    IF patterns = <<>> THEN FALSE
    ELSE IF re_search(Head(patterns), s) THEN TRUE
    ELSE AnyPattern(Tail(patterns), s)

classify_font_sans_last(fam) ==
    LET family_lower == Lower(fam)
    IN IF AnyPattern(MONO_PATTERNS, family_lower) THEN "monospace"
       ELSE IF AnyPattern(SERIF_PATTERNS, family_lower) THEN "serif"
       ELSE IF AnyPattern(SANS_PATTERNS, family_lower) THEN "sans-serif"
       ELSE "unknown"

classify_font(fam) ==
    LET family_lower == Lower(fam)
    IN IF AnyPattern(MONO_PATTERNS, family_lower) THEN "monospace"
       ELSE IF AnyPattern(SANS_PATTERNS, family_lower) THEN "sans-serif"
       ELSE IF AnyPattern(SERIF_PATTERNS, family_lower) THEN "serif"
       ELSE "unknown"

(***************************************************************************)
(* CSS text as atoms.  Quote stands for either quote character, Space for  *)
(* any whitespace.                                                         *)
(***************************************************************************)
Quote == "'"
Space == " "
None == <<>>

StripSet(s, cs) ==
    LET keep == {i \in 1..Len(s) : s[i] \notin cs}
    IN IF keep = {} THEN <<>>
       ELSE SubSeq(s, CHOOSE i \in keep : \A j \in keep : i <= j,
                      CHOOSE i \in keep : \A j \in keep : i >= j)

\* str.strip()
Strip(s) == StripSet(s, {Space})

\* Index of the first occurrence of atom a in s, 0 when there is none.
FirstIndex(s, a) ==
    IF \E i \in 1..Len(s) : s[i] = a
    THEN CHOOSE i \in 1..Len(s) : s[i] = a /\ \A j \in 1..(i - 1) : s[j] # a
    ELSE 0

\* str.split(",")
RECURSIVE Split(_)
Split(s) ==
    LET i == FirstIndex(s, ",")
    IN IF i = 0 THEN <<s>>
       ELSE <<SubSeq(s, 1, i - 1)>> \o Split(SubSeq(s, i + 1, Len(s)))

\* End (exclusive) of the longest run of atoms outside excl starting at j.
RECURSIVE RunEnd(_, _, _)
RunEnd(s, j, excl) ==
    IF j <= Len(s) /\ s[j] \notin excl THEN RunEnd(s, j + 1, excl) ELSE j

RECURSIVE SkipSpaces(_, _)
SkipSpaces(s, j) == IF j <= Len(s) /\ s[j] = Space THEN SkipSpaces(s, j + 1) ELSE j

\* tok\(["']?([^"')\s]+)["']?\) tried at position i: group 1, or None.
TokenAt(tok, s, i) ==
    IF i > Len(s) \/ s[i] # tok THEN None
    ELSE LET j == IF i + 1 <= Len(s) /\ s[i + 1] = Quote THEN i + 2 ELSE i + 1
             k == RunEnd(s, j, {Quote, ")", Space})
             m == IF k <= Len(s) /\ s[k] = Quote THEN k + 1 ELSE k
         IN IF k > j /\ m <= Len(s) /\ s[m] = ")" THEN SubSeq(s, j, k - 1) ELSE None

\* re.search of that pattern: group 1 of the leftmost match, or None.
RECURSIVE TokenSearchFrom(_, _, _)
TokenSearchFrom(tok, s, i) ==
    IF i > Len(s) THEN None
    ELSE IF TokenAt(tok, s, i) # None THEN TokenAt(tok, s, i)
    ELSE TokenSearchFrom(tok, s, i + 1)

TokenSearch(tok, s) == TokenSearchFrom(tok, s, 1)

(***************************************************************************)
(* URLs.  A URL is a sequence of atoms; an absolute one starts with an     *)
(* atom holding its scheme.  A base URL is <<directory, file>>.            *)
(***************************************************************************)
SchemeAtoms == {"https://cdn.test/", "data:"}

\* urllib.parse.urljoin(base_url, raw_url)
urljoin(base_url, raw_url) ==
    IF raw_url # <<>> /\ raw_url[1] \in SchemeAtoms THEN raw_url
    ELSE SubSeq(base_url, 1, Len(base_url) - 1) \o raw_url

ExtAtoms == {".woff2", ".woff", ".ttf", ".otf", ".eot", ".WOFF", ".svg"}

\* Path(urlparse(url).path).suffix
UrlSuffix(url) ==
    LET q == FirstIndex(url, "?v=1")
        p == IF q = 0 THEN url ELSE SubSeq(url, 1, q - 1)
    IN IF p # <<>> /\ Last(p) \in ExtAtoms THEN Last(p) ELSE ""

\* Path(urlparse(url).path).suffix.lower()
UrlSuffixLower(url) == IF UrlSuffix(url) = ".WOFF" THEN ".woff" ELSE UrlSuffix(url)

extract_font_url_keep_data(src_value, base_url) ==
    LET raw_url == TokenSearch("url(", src_value)
    IN IF raw_url = None THEN None
       ELSE <<urljoin(base_url, raw_url), TokenSearch("format(", src_value)>>

\* Returns None or <<absolute_url, font_format>> (font_format None if absent).
extract_font_url(src_value, base_url) ==
    LET raw_url == TokenSearch("url(", src_value)
    IN IF raw_url = None THEN None
       ELSE IF raw_url[1] = "data:" THEN None
       ELSE <<urljoin(base_url, raw_url), TokenSearch("format(", src_value)>>

\* format_priority.get(fmt or "", 5)
format_priority(fmt) ==
    CASE fmt = <<"woff2">> -> 0
      [] fmt = <<"woff">> -> 1
      [] fmt = <<"truetype">> -> 2
      [] fmt = <<"opentype">> -> 3
      [] fmt = <<"embedded-opentype">> -> 4
      [] OTHER -> 5

\* ext_to_fmt.get(ext, 5)
ext_to_fmt(ext) ==
    CASE ext = ".woff2" -> 0
      [] ext = ".woff" -> 1
      [] ext = ".ttf" -> 2
      [] ext = ".otf" -> 3
      [] ext = ".eot" -> 4
      [] OTHER -> 5

\* The body of the loop over src_value.split(","): the candidate of one part.
Candidate(src_part, base_url) ==
    LET result == extract_font_url(Strip(src_part), base_url)
    IN IF result = None THEN <<>>
       ELSE LET url == result[1]
                fmt == result[2]
                priority == IF fmt = None THEN ext_to_fmt(UrlSuffixLower(url))
                            ELSE format_priority(fmt)
            IN <<[url |-> url, fmt |-> fmt, priority |-> priority]>>

Candidates(src_value, base_url) ==
    LET parts == Split(src_value)
    IN Concat([i \in 1..Len(parts) |-> Candidate(parts[i], base_url)])

SortByPriority_unsorted(candidates) == candidates

\* candidates.sort(key=lambda x: x[2]): list.sort is stable.
SortByPriority(candidates) ==
    LET Bucket(p) == SelectSeq(candidates, LAMBDA c : c.priority = p)
    IN Concat([p \in 1..6 |-> Bucket(p - 1)])

FontFace(fam, url, weight, style, fmt, cat) ==
    [family |-> fam, url |-> url, weight |-> weight, style |-> style,
     format |-> fmt, category |-> cat]

\* The loop "for prop in rule.style: match prop.name".
RECURSIVE ReadProps(_, _)
ReadProps(props, acc) ==
    IF props = <<>> THEN acc
    ELSE LET prop == Head(props)
         IN ReadProps(Tail(props),
                CASE prop.name = "font-family" ->
                        [acc EXCEPT !.family = StripSet(prop.value, {Quote})]
                  [] prop.name = "font-weight" -> [acc EXCEPT !.weight = prop.value]
                  [] prop.name = "font-style" -> [acc EXCEPT !.style = prop.value]
                  [] prop.name = "src" -> [acc EXCEPT !.src_value = prop.value]
                  [] OTHER -> acc)

\* props: the (name, value) pairs of rule.style, in source order.
parse_font_face_rule(props, base_url) ==
    LET r == ReadProps(props, [family |-> None, weight |-> <<"400">>,
                               style |-> <<"normal">>, src_value |-> None])
    IN IF r.family = <<>> \/ r.src_value = <<>> THEN <<>>
       ELSE LET candidates == Candidates(r.src_value, base_url)
            IN IF candidates = <<>> THEN <<>>
               ELSE LET best == SortByPriority(candidates)[1]
                    IN <<FontFace(r.family, best.url, r.weight, r.style, best.fmt,
                                  classify_font(r.family))>>

(***************************************************************************)
(* Stylesheets.  A rule is described by its declarations; Props is what    *)
(* the structured parser exposes as rule.style, RenderBody is the text     *)
(* between the braces, which the regex fallback scans.                     *)
(***************************************************************************)
Frag(url, q, fmt) == [url |-> url, q |-> q, fmt |-> fmt]

Q(frag) == IF frag.q THEN <<Quote>> ELSE <<>>

\* One comma-separated source of a src value.
RenderFrag(frag) ==
    IF frag.url = <<>> THEN <<"local(", "x", ")">>
    ELSE <<"url(">> \o Q(frag) \o frag.url \o Q(frag) \o <<")">>
         \o (IF frag.fmt = "" THEN <<>>
             ELSE <<Space, "format(">> \o Q(frag) \o <<frag.fmt>> \o Q(frag) \o <<")">>)

RECURSIVE RenderSrc(_)
RenderSrc(frags) ==
    IF frags = <<>> THEN <<>>
    ELSE IF Len(frags) = 1 THEN RenderFrag(frags[1])
    ELSE RenderFrag(frags[1]) \o <<",", Space>> \o RenderSrc(Tail(frags))

Props(r) ==
    (IF r.family = <<>> THEN <<>>
     ELSE <<[name |-> "font-family", value |-> <<Quote>> \o r.family \o <<Quote>>]>>)
    \o (IF r.weight = <<>> THEN <<>>
        ELSE <<[name |-> "font-weight", value |-> r.weight]>>)
    \o (IF r.frags = <<>> THEN <<>>
        ELSE <<[name |-> "src", value |-> RenderSrc(r.frags)]>>)

NameAtom(name) ==
    CASE name = "font-family" -> "font-family:"
      [] name = "font-weight" -> "font-weight:"
      [] name = "font-style" -> "font-style:"
      [] name = "src" -> "src:"

RenderBody(r) ==
    LET props == Props(r)
    IN Concat([i \in 1..Len(props) |->
                  <<NameAtom(props[i].name)>> \o props[i].value
                  \o (IF i < Len(props) \/ r.semi THEN <<";">> ELSE <<>>)])

\* name\s*:\s*([^;]+); tried at position i: group 1, or None.
PropAt(name, s, i) ==
    IF i > Len(s) \/ s[i] # NameAtom(name) THEN None
    ELSE LET j == SkipSpaces(s, i + 1)
             k == RunEnd(s, j, {";"})
         IN IF k > j /\ k <= Len(s) /\ s[k] = ";" THEN SubSeq(s, j, k - 1) ELSE None

\* font-family\s*:\s*['"]?([^;'"]+)['"]?\s*; tried at position i.
FamilyAt(s, i) ==
    IF i > Len(s) \/ s[i] # NameAtom("font-family") THEN None
    ELSE LET j0 == SkipSpaces(s, i + 1)
             j == IF j0 <= Len(s) /\ s[j0] = Quote THEN j0 + 1 ELSE j0
             k == RunEnd(s, j, {";", Quote})
             m == SkipSpaces(s, IF k <= Len(s) /\ s[k] = Quote THEN k + 1 ELSE k)
         IN IF k > j /\ m <= Len(s) /\ s[m] = ";" THEN SubSeq(s, j, k - 1) ELSE None

RECURSIVE PropSearchFrom(_, _, _)
PropSearchFrom(name, s, i) ==
    IF i > Len(s) THEN None
    ELSE IF PropAt(name, s, i) # None THEN PropAt(name, s, i)
    ELSE PropSearchFrom(name, s, i + 1)

RECURSIVE FamilySearchFrom(_, _)
FamilySearchFrom(s, i) ==
    IF i > Len(s) THEN None
    ELSE IF FamilyAt(s, i) # None THEN FamilyAt(s, i)
    ELSE FamilySearchFrom(s, i + 1)

\* The body of the loop over re.finditer(pattern, css_text): one block.
RegexBlock(block, base_url) ==
    LET family_match == FamilySearchFrom(block, 1)
        src_match == PropSearchFrom("src", block, 1)
        weight_match == PropSearchFrom("font-weight", block, 1)
        style_match == PropSearchFrom("font-style", block, 1)
    IN IF family_match = None \/ src_match = None THEN <<>>
       ELSE LET fam == Strip(family_match)
                src_value == Strip(src_match)
                weight == IF weight_match # None THEN Strip(weight_match) ELSE <<"400">>
                style == IF style_match # None THEN Strip(style_match) ELSE <<"normal">>
                result == extract_font_url(src_value, base_url)
            IN IF result = None THEN <<>>
               ELSE <<FontFace(fam, result[1], weight, style, result[2],
                               classify_font(fam))>>

\* text (css_text): a sequence of rules.  @font-face\s*\{([^}]+)\} matches the
\* font-face rules with a non-empty body.
RECURSIVE parse_css_with_regex(_, _)
parse_css_with_regex(text, base_url) ==
    IF text = <<>> THEN <<>>
    ELSE LET r == Head(text)
         IN (IF r.kind = "font-face" /\ RenderBody(r) # <<>>
             THEN RegexBlock(RenderBody(r), base_url) ELSE <<>>)
            \o parse_css_with_regex(Tail(text), base_url)

\* The try-block of parse_css_for_fonts over the first n rules of the sheet:
\* every CSSFontFaceRule among them has been handed to parse_font_face_rule.
RECURSIVE StructuredRules(_, _, _)
StructuredRules(text, n, base_url) ==
    IF n = 0 THEN <<>>
    ELSE StructuredRules(text, n - 1, base_url)
         \o (IF text[n].kind = "font-face"
             THEN parse_font_face_rule(Props(text[n]), base_url) ELSE <<>>)

\* raise_at = 0: cssutils.parseString raises; raise_at = k in 1..Len(text):
\* an exception is raised while the k-th rule is handled; Len(text) + 1: none.
parse_css_for_fonts(text, base_url, raise_at) ==
    IF raise_at > Len(text) THEN StructuredRules(text, Len(text), base_url)
    ELSE StructuredRules(text, IF raise_at = 0 THEN 0 ELSE raise_at - 1, base_url)
         \o parse_css_with_regex(text, base_url)

(***************************************************************************)
(* Post-processing and the category selection of main.                     *)
(***************************************************************************)
RECURSIVE DedupLoop_by_family(_, _, _)
DedupLoop_by_family(fs, seen_urls, unique) ==
    IF fs = <<>> THEN unique
    ELSE LET font == Head(fs)
         IN IF <<font.url, font.family>> \notin seen_urls
            THEN DedupLoop_by_family(Tail(fs), seen_urls \cup {<<font.url, font.family>>},
                                     Append(unique, font))
            ELSE DedupLoop_by_family(Tail(fs), seen_urls, unique)

\* The loop "for font in fonts" of deduplicate_fonts.
RECURSIVE DedupLoop(_, _, _)
DedupLoop(fs, seen_urls, unique) ==
    IF fs = <<>> THEN unique
    ELSE LET font == Head(fs)
         IN IF font.url \notin seen_urls
            THEN DedupLoop(Tail(fs), seen_urls \cup {font.url}, Append(unique, font))
            ELSE DedupLoop(Tail(fs), seen_urls, unique)

deduplicate_fonts_by_family(fs) == DedupLoop_by_family(fs, {}, <<>>)

deduplicate_fonts(fs) == DedupLoop(fs, {}, <<>>)

filter_fonts_none_is_empty(fs, cats) ==
    SelectSeq(fs, LAMBDA f : f.category \in cats.members)

filter_fonts(fs, cats) ==
    IF cats.is_none THEN fs
    ELSE SelectSeq(fs, LAMBDA f : f.category \in cats.members)

\* Lines 482-496 of main: which categories to include.
SelectCategories(a) ==
    IF a.all THEN [is_none |-> TRUE, members |-> {}]
    ELSE IF a.serif \/ a.sans_serif \/ a.monospace
    THEN [is_none |-> FALSE,
          members |-> (IF a.serif THEN {"serif"} ELSE {})
                      \cup (IF a.sans_serif THEN {"sans-serif"} ELSE {})
                      \cup (IF a.monospace THEN {"monospace"} ELSE {})]
    ELSE [is_none |-> TRUE, members |-> {}]

(***************************************************************************)
(* The page collector.                                                     *)
(***************************************************************************)
PageUrl == <<"https://x.test/", "index.html">>

Range(s) == {s[i] : i \in 1..Len(s)}

\* A <link> tag: its href and whether rel="stylesheet" / type="text/css".
Link(href, rel, type_css) == [href |-> href, rel |-> rel, type_css |-> type_css]

\* The second loop of extract_css_urls: type="text/css" links not yet listed.
RECURSIVE AddTypeLinks(_, _, _)
AddTypeLinks(links, urls, base_url) ==
    IF links = <<>> THEN urls
    ELSE LET u == urljoin(base_url, Head(links).href)
         IN AddTypeLinks(Tail(links),
                         IF u \in Range(urls) THEN urls ELSE Append(urls, u), base_url)

extract_css_urls(links, base_url) ==
    LET rel == SelectSeq(links, LAMBDA l : l.rel)
        urls == [i \in 1..Len(rel) |-> urljoin(base_url, rel[i].href)]
    IN AddTypeLinks(SelectSeq(links, LAMBDA l : l.type_css), urls, base_url)

CssUrls(st) == extract_css_urls(st.links, PageUrl)

ImportMatches_twice(text) ==
    LET m == SelectSeq(text, LAMBDA r : r.kind = "import")
    IN Concat([i \in 1..Len(m) |-> <<m[i].href, m[i].href>>])

\* re.finditer(import_pattern, css_text): group 1 of every match, in order.
ImportMatches(text) ==
    LET m == SelectSeq(text, LAMBDA r : r.kind = "import")
    IN [i \in 1..Len(m) |-> m[i].href]

\* Lines 338-341: every inline style block scanned with the page as base.
InlineFonts(styles) ==
    Concat([i \in 1..Len(styles) |-> parse_css_for_fonts(styles[i], PageUrl,
                                                        Len(styles[i]) + 1)])

Fetch(url, kind, ok) == [url |-> url, kind |-> kind, ok |-> ok]

ImportFailureResume_abort(i, n) == n + 1

\* The inner except (lines 360-361): the loop goes on with the next match.
ImportFailureResume(i, n) == i + 1

(***************************************************************************)
(* Downloads, conversion and the exit status of main.                      *)
(***************************************************************************)
\* download_font, lines 296-306: the written path, as (index, suffix); the
\* suffix is that of the URL's file name, ".woff2" when it has none.
DownloadPath(font, index) ==
    [index |-> index,
     suffix |-> IF UrlSuffix(font.url) = "" THEN ".woff2" ELSE UrlSuffix(font.url)]

\* woff2_path.suffix.lower() == ".woff2"
IsWoff2(p) == p.suffix = ".woff2"

main_return_any(count, total) == IF count > 0 THEN 0 ELSE 1

\* Line 556.
main_return(count, total) == IF count = total THEN 0 ELSE 1

(***************************************************************************)
(* Inputs.                                                                 *)
(***************************************************************************)
BaseUrl == <<"https://x.test/css/", "s.css">>

DataUrl == <<"data:", "font/woff2", ";", "base64", ",", "AAAA">>
DataUrlComma == <<"data:", ",", "AAAA">>
DataUrlBare == <<"data:", "AAAA">>

FragSpecs ==
    { Frag(<<"a", ".woff2">>, FALSE, ""),
      Frag(<<"a", ".woff2">>, TRUE, "woff2"),
      Frag(<<"b", ".ttf">>, FALSE, "truetype"),
      Frag(<<"b", ".ttf">>, TRUE, ""),
      Frag(<<"b", ".ttf">>, FALSE, "svg"),
      Frag(<<"c">>, FALSE, ""),
      Frag(<<"c">>, FALSE, "woff2"),
      Frag(<<"https://cdn.test/", "d", ".WOFF", "?v=1">>, FALSE, ""),
      Frag(DataUrl, TRUE, "woff2"),
      Frag(DataUrlComma, FALSE, ""),
      Frag(DataUrlBare, FALSE, "woff2"),
      Frag(<<>>, FALSE, "") }

RuleFamilies == {<<>>, <<"Georgia">>, <<"Fira", " ", "Code">>}

FontFaceRule(fam, weight, frags, semi) ==
    [kind |-> "font-face", family |-> fam, weight |-> weight, frags |-> frags,
     semi |-> semi, href |-> <<>>]

\* Any rule that is neither @font-face nor @import.
StyleRule == [kind |-> "style", family |-> <<>>, weight |-> <<>>, frags |-> <<>>,
              semi |-> TRUE, href |-> <<>>]

\* @import url(href)
ImportRule(href) == [kind |-> "import", family |-> <<>>, weight |-> <<>>,
                     frags |-> <<>>, semi |-> TRUE, href |-> href]

Rules ==
    { FontFaceRule(f, w, s, semi) :
        f \in RuleFamilies, w \in {<<>>, <<"700">>},
        s \in SeqsUpTo(FragSpecs, MaxSrc), semi \in BOOLEAN }

\* The command line: the flags main reads.
Args(all, serif, sans_serif, monospace, list_only, ttf) ==
    [all |-> all, serif |-> serif, sans_serif |-> sans_serif, monospace |-> monospace,
     list_only |-> list_only, ttf |-> ttf]

NoArgs == Args(FALSE, FALSE, FALSE, FALSE, FALSE, FALSE)

\* categories: None, or a set of categories.
NoCategories == [is_none |-> TRUE, members |-> {}]

\* A site: the inline <style> texts of the page, the hrefs of its stylesheet
\* links, and the CSS text served at each stylesheet URL.
NoSite == [inline |-> <<>>, links |-> <<>>, web |-> <<>>]

(***************************************************************************)
(* SpecClassify: classify_font applied to every bounded family name.       *)
(***************************************************************************)
IdleClassify == family = <<>> /\ category = "none"
IdleRule == rule = StyleRule /\ path = "none"
IdleScan == css_text = <<>> /\ err_at = 0
IdleArgs == args = NoArgs /\ categories = NoCategories
IdleCollect ==
    /\ site = NoSite /\ all_fonts = <<>> /\ css_i = 0 /\ imp_i = 0 /\ fetches = <<>>
IdleMain ==
    /\ dl_i = 0 /\ results = <<>> /\ success_count = 0 /\ downloaded_paths = <<>>
    /\ conv_i = 0 /\ converted = <<>> /\ exit_code = -1

InitClassify ==
    /\ pc = "classify"
    /\ family \in SeqsUpTo(FamilyAtoms, MaxFamilyLen)
    /\ category = "none"
    /\ fonts = <<>>
    /\ IdleRule /\ IdleScan /\ IdleArgs /\ IdleCollect /\ IdleMain

Classify ==
    /\ pc = "classify"
    /\ category' = classify_font(family)
    /\ pc' = "classified"
    /\ UNCHANGED <<family, fonts, ruleVars, scanVars, argVars, collectVars, mainVars>>

NextClassify == Classify

SpecClassify == InitClassify /\ [][NextClassify]_vars

(***************************************************************************)
(* SpecRule: one @font-face block through either parser.                   *)
(***************************************************************************)
InitRule ==
    /\ pc = "rule"
    /\ rule \in Rules
    /\ path \in {"structured", "regex"}
    /\ fonts = <<>>
    /\ IdleClassify /\ IdleScan /\ IdleArgs /\ IdleCollect /\ IdleMain

ParseFontFaceRule ==
    /\ pc = "rule" /\ path = "structured"
    /\ fonts' = parse_font_face_rule(Props(rule), BaseUrl)
    /\ pc' = "parsed"
    /\ UNCHANGED <<ruleVars, classifyVars, scanVars, argVars, collectVars, mainVars>>

ParseWithRegex ==
    /\ pc = "rule" /\ path = "regex"
    /\ fonts' = parse_css_with_regex(<<rule>>, BaseUrl)
    /\ pc' = "parsed"
    /\ UNCHANGED <<ruleVars, classifyVars, scanVars, argVars, collectVars, mainVars>>

NextRule == ParseFontFaceRule \/ ParseWithRegex

SpecRule == InitRule /\ [][NextRule]_vars

(***************************************************************************)
(* SpecScan: parse_css_for_fonts on a stylesheet, with the structured      *)
(* parse raising nowhere, in parseString, or while a rule is handled.      *)
(***************************************************************************)
ScanRules ==
    { StyleRule,
      FontFaceRule(<<"Georgia">>, <<>>, <<Frag(<<"a", ".woff2">>, FALSE, "")>>, TRUE),
      FontFaceRule(<<"Fira", " ", "Code">>, <<"700">>,
                   <<Frag(<<"b", ".ttf">>, FALSE, "truetype"),
                     Frag(<<"a", ".woff2">>, TRUE, "woff2")>>, TRUE),
      FontFaceRule(<<"Arial">>, <<>>, <<Frag(<<"c">>, FALSE, "")>>, FALSE),
      FontFaceRule(<<"X">>, <<>>, <<Frag(DataUrl, TRUE, "woff2")>>, TRUE) }

InitScan ==
    /\ pc = "scan"
    /\ css_text \in SeqsUpTo(ScanRules, MaxRules)
    /\ err_at \in 0..(Len(css_text) + 1)
    /\ fonts = <<>>
    /\ IdleClassify /\ IdleRule /\ IdleArgs /\ IdleCollect /\ IdleMain

ParseCssForFonts ==
    /\ pc = "scan"
    /\ fonts' = parse_css_for_fonts(css_text, BaseUrl, err_at)
    /\ pc' = "scanned"
    /\ UNCHANGED <<classifyVars, ruleVars, scanVars, argVars, collectVars, mainVars>>

NextScan == ParseCssForFonts

SpecScan == InitScan /\ [][NextScan]_vars

(***************************************************************************)
(* SpecPost: lines 482-496 and 513-514 of main on every bounded font list  *)
(* and flag combination.                                                   *)
(***************************************************************************)
PostFamilies == {<<"Georgia">>, <<"Arial">>, <<"Fira", " ", "Code">>, <<"X">>}
PostUrls == {<<"https://x.test/css/", "a", ".woff2">>, <<"https://x.test/css/", "b", ".ttf">>}

\* FontFace values as the parsers build them: category derived from family.
PostFonts ==
    { FontFace(f, u, <<"400">>, <<"normal">>, None, classify_font(f)) :
        f \in PostFamilies, u \in PostUrls }

CategoryArgs ==
    { Args(a, s, n, m, FALSE, FALSE) : a \in BOOLEAN, s \in BOOLEAN, n \in BOOLEAN,
                                       m \in BOOLEAN }

InitPost ==
    /\ pc = "args"
    /\ args \in CategoryArgs
    /\ categories = NoCategories
    /\ all_fonts \in SeqsUpTo(PostFonts, MaxFonts)
    /\ fonts = all_fonts
    /\ site = NoSite /\ css_i = 0 /\ imp_i = 0 /\ fetches = <<>>
    /\ IdleClassify /\ IdleRule /\ IdleScan /\ IdleMain

\* main, lines 482-496.
ParseArgs(next) ==
    /\ pc = "args"
    /\ categories' = SelectCategories(args)
    /\ pc' = next
    /\ UNCHANGED <<args, fonts, classifyVars, ruleVars, scanVars, collectVars, mainVars>>

Deduplicate_after_filter ==
    /\ pc = "dedup"
    /\ fonts' = deduplicate_fonts(filter_fonts(fonts, categories))
    /\ pc' = "filter"
    /\ UNCHANGED <<classifyVars, ruleVars, scanVars, argVars, collectVars, mainVars>>

\* main, line 513.
Deduplicate ==
    /\ pc = "dedup"
    /\ fonts' = deduplicate_fonts(fonts)
    /\ pc' = "filter"
    /\ UNCHANGED <<classifyVars, ruleVars, scanVars, argVars, collectVars, mainVars>>

\* main, line 514.
Filter ==
    /\ pc = "filter"
    /\ fonts' = filter_fonts(fonts, categories)
    /\ pc' = "filtered"
    /\ UNCHANGED <<classifyVars, ruleVars, scanVars, argVars, collectVars, mainVars>>

NextPost == ParseArgs("dedup") \/ Deduplicate \/ Filter

SpecPost == InitPost /\ [][NextPost]_vars

(***************************************************************************)
(* SpecCollect: collect_fonts_from_page, one fetch per step, every fetch   *)
(* free to fail.                                                           *)
(***************************************************************************)
S1Url == <<"https://x.test/", "css/", "s1.css">>
S2Url == <<"https://x.test/", "css/", "s2.css">>

S1Rules ==
    << FontFaceRule(<<"Georgia">>, <<>>, <<Frag(<<"a", ".woff2">>, FALSE, "")>>, TRUE),
       FontFaceRule(<<"Sans">>, <<>>, <<Frag(<<"b", ".ttf">>, FALSE, "truetype")>>, TRUE) >>

S2Rules ==
    << FontFaceRule(<<"Fira", " ", "Code">>, <<"700">>,
                    <<Frag(<<"b", ".ttf">>, FALSE, "truetype"),
                      Frag(<<"a", ".woff2">>, TRUE, "woff2")>>, TRUE),
       StyleRule,
       FontFaceRule(<<"Arial">>, <<>>, <<Frag(<<"c">>, FALSE, "")>>, TRUE) >>

InlineText ==
    << ImportRule(<<"css/", "s1.css">>),
       FontFaceRule(<<"X">>, <<>>, <<Frag(<<"a", ".woff2">>, FALSE, "")>>, TRUE) >>

Imports(hrefs) == [i \in 1..Len(hrefs) |-> ImportRule(hrefs[i])]

\* The stylesheets served, given the @import hrefs of each.
Web(imports1, imports2) ==
    (S1Url :> (Imports(imports1) \o S1Rules)) @@ (S2Url :> (S2Rules \o Imports(imports2)))

Webs ==
    { Web(<<>>, <<>>),
      Web(<<<<"s2.css">>>>, <<<<"s1.css">>>>),
      Web(<<<<"s1.css">>, <<"s2.css">>>>, <<>>),
      Web(<<>>, <<<<"s2.css">>, <<"s1.css">>>>) }

LinkTags ==
    { Link(<<"css/", "s1.css">>, TRUE, FALSE),
      Link(<<"css/", "s2.css">>, TRUE, TRUE),
      Link(<<"css/", "s1.css">>, FALSE, TRUE) }

Sites ==
    { [inline |-> i, links |-> l, web |-> w] :
        i \in {<<>>, <<InlineText>>}, l \in SeqsUpTo(LinkTags, MaxLinks), w \in Webs }

InitCollect ==
    /\ pc = "fetch_page"
    /\ site \in Sites
    /\ all_fonts = <<>> /\ css_i = 0 /\ imp_i = 0 /\ fetches = <<>>
    /\ fonts = <<>>
    /\ IdleClassify /\ IdleRule /\ IdleScan /\ IdleArgs /\ IdleMain

otherThanCollect == <<classifyVars, ruleVars, argVars, mainVars>>

\* Lines 335-344: the page is fetched and its inline styles are scanned.
FetchPage ==
    /\ pc = "fetch_page"
    /\ fetches' = Append(fetches, Fetch(PageUrl, "page", TRUE))
    /\ all_fonts' = InlineFonts(site.inline)
    /\ css_i' = 1
    /\ pc' = "css"
    /\ UNCHANGED <<site, imp_i, fonts, css_text, err_at, otherThanCollect>>

\* fetch_page raises; main (lines 509-511) reports it and returns 1.
FetchPageFails ==
    /\ pc = "fetch_page"
    /\ fetches' = Append(fetches, Fetch(PageUrl, "page", FALSE))
    /\ exit_code' = 1
    /\ pc' = "exit"
    /\ UNCHANGED <<site, all_fonts, css_i, imp_i, fonts, scanVars, classifyVars,
                   ruleVars, argVars, dl_i, results, success_count, downloaded_paths,
                   conv_i, converted>>

\* Lines 347-350: the stylesheet is fetched and scanned.
FetchCss ==
    /\ pc = "css" /\ css_i <= Len(CssUrls(site))
    /\ LET css_url == CssUrls(site)[css_i]
       IN /\ fetches' = Append(fetches, Fetch(css_url, "css", TRUE))
          /\ css_text' = site.web[css_url]
          /\ all_fonts' = all_fonts \o parse_css_for_fonts(site.web[css_url], css_url,
                                                            Len(site.web[css_url]) + 1)
    /\ imp_i' = 1
    /\ pc' = "imports"
    /\ UNCHANGED <<site, css_i, fonts, err_at, otherThanCollect>>

\* fetch_css raises: the outer except (lines 362-363), next stylesheet.
FetchCssFails ==
    /\ pc = "css" /\ css_i <= Len(CssUrls(site))
    /\ fetches' = Append(fetches, Fetch(CssUrls(site)[css_i], "css", FALSE))
    /\ css_i' = css_i + 1
    /\ UNCHANGED <<pc, site, all_fonts, imp_i, fonts, scanVars, otherThanCollect>>

\* Lines 353-359: one @import match is fetched and scanned.
FollowImport ==
    /\ pc = "imports" /\ imp_i <= Len(ImportMatches(css_text))
    /\ LET import_url == urljoin(CssUrls(site)[css_i], ImportMatches(css_text)[imp_i])
       IN /\ fetches' = Append(fetches, Fetch(import_url, "import", TRUE))
          /\ all_fonts' = all_fonts \o parse_css_for_fonts(site.web[import_url], import_url,
                                                            Len(site.web[import_url]) + 1)
    /\ imp_i' = imp_i + 1
    /\ UNCHANGED <<pc, site, css_i, fonts, scanVars, otherThanCollect>>

\* Lines 360-361: the fetch of one @import raises.
FollowImportFails ==
    /\ pc = "imports" /\ imp_i <= Len(ImportMatches(css_text))
    /\ LET import_url == urljoin(CssUrls(site)[css_i], ImportMatches(css_text)[imp_i])
       IN fetches' = Append(fetches, Fetch(import_url, "import", FALSE))
    /\ imp_i' = ImportFailureResume(imp_i, Len(ImportMatches(css_text)))
    /\ UNCHANGED <<pc, site, all_fonts, css_i, fonts, scanVars, otherThanCollect>>

\* The @import matches are exhausted: the next css_url.
NextStylesheet ==
    /\ pc = "imports" /\ imp_i > Len(ImportMatches(css_text))
    /\ css_i' = css_i + 1
    /\ pc' = "css"
    /\ UNCHANGED <<site, all_fonts, imp_i, fetches, fonts, scanVars, otherThanCollect>>

\* Line 364 and line 508: fonts = collect_fonts_from_page(...).
ReturnFonts ==
    /\ pc = "css" /\ css_i > Len(CssUrls(site))
    /\ fonts' = all_fonts
    /\ pc' = "dedup"
    /\ UNCHANGED <<collectVars, scanVars, otherThanCollect>>

NextCollect ==
    \/ FetchPage \/ FetchPageFails \/ FetchCss \/ FetchCssFails
    \/ FollowImport \/ FollowImportFails \/ NextStylesheet \/ ReturnFonts

SpecCollect == InitCollect /\ [][NextCollect]_vars

(***************************************************************************)
(* Spec: a whole run of main.                                              *)
(***************************************************************************)
AllArgs ==
    { Args(a, s, n, m, l, t) : a \in BOOLEAN, s \in BOOLEAN, n \in BOOLEAN,
                                m \in BOOLEAN, l \in BOOLEAN, t \in BOOLEAN }

MainSites ==
    { [inline |-> <<InlineText>>,
       links |-> <<Link(<<"css/", "s1.css">>, TRUE, FALSE),
                   Link(<<"css/", "s2.css">>, TRUE, TRUE)>>,
       web |-> Web(<<<<"s2.css">>>>, <<>>)] }

Init ==
    /\ pc = "args"
    /\ args \in AllArgs
    /\ categories = NoCategories
    /\ site \in MainSites
    /\ all_fonts = <<>> /\ css_i = 0 /\ imp_i = 0 /\ fetches = <<>>
    /\ fonts = <<>>
    /\ IdleClassify /\ IdleRule /\ IdleScan /\ IdleMain

beforeDownload == <<fonts, classifyVars, ruleVars, scanVars, argVars, collectVars>>

\* Lines 515-517: nothing matches, the run ends with status 0.
NoFonts ==
    /\ pc = "filtered" /\ fonts = <<>>
    /\ exit_code' = 0
    /\ pc' = "exit"
    /\ UNCHANGED <<beforeDownload, dl_i, results, success_count, downloaded_paths,
                   conv_i, converted>>

\* Lines 525-526: --list-only.
ListOnly ==
    /\ pc = "filtered" /\ fonts # <<>> /\ args.list_only
    /\ exit_code' = 0
    /\ pc' = "exit"
    /\ UNCHANGED <<beforeDownload, dl_i, results, success_count, downloaded_paths,
                   conv_i, converted>>

\* Lines 528-529: the output directory is made, the download loop starts.
StartDownloads ==
    /\ pc = "filtered" /\ fonts # <<>> /\ ~args.list_only
    /\ dl_i' = 1
    /\ pc' = "download"
    /\ UNCHANGED <<beforeDownload, results, success_count, downloaded_paths, conv_i,
                   converted, exit_code>>

\* Lines 532-536: download_font returns success.
DownloadFont ==
    /\ pc = "download" /\ dl_i <= Len(fonts)
    /\ results' = Append(results, TRUE)
    /\ success_count' = success_count + 1
    /\ downloaded_paths' = Append(downloaded_paths, DownloadPath(fonts[dl_i], dl_i - 1))
    /\ dl_i' = dl_i + 1
    /\ UNCHANGED <<pc, beforeDownload, conv_i, converted, exit_code>>

\* Lines 309-310 and 537-538: download_font caught an exception.
DownloadFontFails ==
    /\ pc = "download" /\ dl_i <= Len(fonts)
    /\ results' = Append(results, FALSE)
    /\ dl_i' = dl_i + 1
    /\ UNCHANGED <<pc, beforeDownload, success_count, downloaded_paths, conv_i,
                   converted, exit_code>>

\* Lines 539-541: the loop is over; conversion runs if asked for and possible.
DownloadsDone ==
    /\ pc = "download" /\ dl_i > Len(fonts)
    /\ conv_i' = 1
    /\ pc' = IF args.ttf /\ downloaded_paths # <<>> THEN "convert" ELSE "return"
    /\ UNCHANGED <<beforeDownload, dl_i, results, success_count, downloaded_paths,
                   converted, exit_code>>

\* Lines 545-550: convert_woff2_to_ttf returns a path.
ConvertFont ==
    /\ pc = "convert" /\ conv_i <= Len(downloaded_paths)
    /\ IsWoff2(downloaded_paths[conv_i])
    /\ converted' = Append(converted, TRUE)
    /\ conv_i' = conv_i + 1
    /\ UNCHANGED <<pc, beforeDownload, dl_i, results, success_count, downloaded_paths,
                   exit_code>>

\* Lines 322-323 and 551-552: convert_woff2_to_ttf returns None.
ConvertFontFails ==
    /\ pc = "convert" /\ conv_i <= Len(downloaded_paths)
    /\ IsWoff2(downloaded_paths[conv_i])
    /\ converted' = Append(converted, FALSE)
    /\ conv_i' = conv_i + 1
    /\ UNCHANGED <<pc, beforeDownload, dl_i, results, success_count, downloaded_paths,
                   exit_code>>

\* Lines 553-554: not a woff2 file.
SkipNotWoff2 ==
    /\ pc = "convert" /\ conv_i <= Len(downloaded_paths)
    /\ ~IsWoff2(downloaded_paths[conv_i])
    /\ conv_i' = conv_i + 1
    /\ UNCHANGED <<pc, beforeDownload, dl_i, results, success_count, downloaded_paths,
                   converted, exit_code>>

\* Line 555: the conversion loop is over.
ConversionsDone ==
    /\ pc = "convert" /\ conv_i > Len(downloaded_paths)
    /\ pc' = "return"
    /\ UNCHANGED <<beforeDownload, mainVars>>

\* Line 556.
Return ==
    /\ pc = "return"
    /\ exit_code' = main_return(success_count, Len(fonts))
    /\ pc' = "exit"
    /\ UNCHANGED <<beforeDownload, dl_i, results, success_count, downloaded_paths,
                   conv_i, converted>>

Next ==
    \/ ParseArgs("fetch_page")
    \/ FetchPage \/ FetchPageFails \/ FetchCss \/ FetchCssFails
    \/ FollowImport \/ FollowImportFails \/ NextStylesheet \/ ReturnFonts
    \/ Deduplicate \/ Filter
    \/ NoFonts \/ ListOnly \/ StartDownloads
    \/ DownloadFont \/ DownloadFontFails \/ DownloadsDone
    \/ ConvertFont \/ ConvertFontFails \/ SkipNotWoff2 \/ ConversionsDone
    \/ Return

Spec == Init /\ [][Next]_vars

(***************************************************************************)
(* Claims about classify_font (SpecClassify).                              *)
(***************************************************************************)
MatchesAny(patterns, s) == \E k \in 1..Len(patterns) : re_search(patterns[k], s)

\* C3: classify_font is total and has the fixed precedence mono > sans >
\* serif > unknown: monospace whenever a monospace pattern matches the
\* lower-cased family, else sans-serif whenever a sans pattern matches, else
\* serif whenever a serif pattern matches, else unknown; no other category
\* is ever returned.
C3_ClassifyPrecedence ==
    LET f == Lower(family)
        mono == MatchesAny(MONO_PATTERNS, f)
        sans == MatchesAny(SANS_PATTERNS, f)
        serif == MatchesAny(SERIF_PATTERNS, f)
    IN /\ pc = "classify" => ENABLED Classify
       /\ pc = "classified" =>
            /\ category \in {"monospace", "sans-serif", "serif", "unknown"}
            /\ mono => category = "monospace"
            /\ (~mono /\ sans) => category = "sans-serif"
            /\ (~mono /\ ~sans /\ serif) => category = "serif"
            /\ (~mono /\ ~sans /\ ~serif) => category = "unknown"

\* A family matching a monospace, a sans and a serif pattern at once.
C3_Witness ==
    /\ pc = "classified"
    /\ family = <<"Sans", "Serif", "Mono">>
    /\ category = "monospace"

(***************************************************************************)
(* Claims about one @font-face block (SpecRule).                           *)
(***************************************************************************)
IsDataFrag(frag) == frag.url # <<>> /\ frag.url[1] = "data:"
IsUrlFrag(frag) == frag.url # <<>> /\ frag.url[1] # "data:"

\* The rank the specification gives a source: by declared format, or by the
\* extension of the URL when no format is declared.
RankOfFrag(frag) ==
    IF frag.fmt # ""
    THEN CASE frag.fmt = "woff2" -> 0
           [] frag.fmt = "woff" -> 1
           [] frag.fmt = "truetype" -> 2
           [] frag.fmt = "opentype" -> 3
           [] frag.fmt = "embedded-opentype" -> 4
           [] OTHER -> 5
    ELSE IF \E i \in 1..Len(frag.url) : frag.url[i] = ".woff2" THEN 0
    ELSE IF \E i \in 1..Len(frag.url) : frag.url[i] \in {".woff", ".WOFF"} THEN 1
    ELSE IF \E i \in 1..Len(frag.url) : frag.url[i] = ".ttf" THEN 2
    ELSE IF \E i \in 1..Len(frag.url) : frag.url[i] = ".otf" THEN 3
    ELSE IF \E i \in 1..Len(frag.url) : frag.url[i] = ".eot" THEN 4
    ELSE 5

UrlEntries(frags) == {i \in 1..Len(frags) : IsUrlFrag(frags[i])}

\* The earliest declared entry among those of lowest rank.
BestEntry(frags) ==
    CHOOSE i \in UrlEntries(frags) :
        \A j \in UrlEntries(frags) :
            \/ RankOfFrag(frags[i]) < RankOfFrag(frags[j])
            \/ RankOfFrag(frags[i]) = RankOfFrag(frags[j]) /\ i <= j

IsBestSource(font, frags) ==
    LET best == frags[BestEntry(frags)]
    IN /\ font.url = urljoin(BaseUrl, best.url)
       /\ font.format = (IF best.fmt = "" THEN <<>> ELSE <<best.fmt>>)

\* C1: on the structured path, a rule with a family whose src has one or
\* more comma-separated non-data url() entries yields the entry of lowest
\* rank, the earliest declared one among equals, whatever the order.
C1_StructuredSelectsBest ==
    (pc = "parsed" /\ path = "structured" /\ rule.family # <<>>
        /\ UrlEntries(rule.frags) # {})
    => (Len(fonts) = 1 /\ IsBestSource(fonts[1], rule.frags))

\* The better source is declared after a worse one and a tie follows it.
C1_Witness ==
    /\ pc = "parsed" /\ path = "structured"
    /\ Len(rule.frags) = 2
    /\ UrlEntries(rule.frags) = {1, 2}
    /\ RankOfFrag(rule.frags[2]) < RankOfFrag(rule.frags[1])
    /\ Len(fonts) = 1
    /\ fonts[1].url = urljoin(BaseUrl, rule.frags[2].url)

\* C2: no FontFace of either path has a data: URL; a source whose url() is
\* a data: URI yields no candidate, and a rule whose url() sources are all
\* data: URIs yields no record.
C2_NoDataUrl ==
    pc = "parsed" =>
        /\ \A i \in 1..Len(fonts) : fonts[i].url[1] # "data:"
        /\ \A i \in 1..Len(rule.frags) :
              IsDataFrag(rule.frags[i])
              => extract_font_url(Strip(RenderFrag(rule.frags[i])), BaseUrl) = None
        /\ UrlEntries(rule.frags) = {} => fonts = <<>>

\* A well-formed block on the regex path whose only source is a data: URI.
C2_Witness ==
    /\ pc = "parsed" /\ path = "regex"
    /\ rule.family # <<>> /\ rule.semi
    /\ Len(rule.frags) = 1 /\ rule.frags[1].url = DataUrlComma
    /\ fonts = <<>>

\* C8: on either path a block with a family and a src yields at most one
\* FontFace, and its (url, format) is the lowest-rank non-data source of the
\* block with the format declared in that same source.
C8_BothPathsSelectBest ==
    (pc = "parsed" /\ rule.family # <<>> /\ rule.frags # <<>>)
    => /\ Len(fonts) <= 1
       /\ fonts # <<>> =>
            (UrlEntries(rule.frags) # {} /\ IsBestSource(fonts[1], rule.frags))

(***************************************************************************)
(* Claims about parse_css_for_fonts (SpecScan).                            *)
(***************************************************************************)
\* C9: when the structured parse raises, in parseString or while its rules
\* are iterated, the result is exactly the regex fallback's result for the
\* text: nothing of the structured attempt is kept.
C9_FallbackReplacesStructured ==
    (pc = "scanned" /\ err_at <= Len(css_text))
    => fonts = parse_css_with_regex(css_text, BaseUrl)

(***************************************************************************)
(* Claims about the post-processing (SpecPost).                            *)
(***************************************************************************)
\* Positions of s that hold the first occurrence of their url.
FirstOccurrences(s) ==
    {i \in 1..Len(s) : \A j \in 1..(i - 1) : s[j].url # s[i].url}

\* s is the sublist of t at the positions idx, in the order of t.
IsSublistAt(s, t, idx) ==
    /\ Len(s) = Cardinality(idx)
    /\ \A k \in 1..Len(s) :
          \E i \in idx : /\ s[k] = t[i]
                         /\ Cardinality({j \in idx : j < i}) = k - 1

\* C4: deduplicate returns the first occurrence of each distinct url, each
\* url of the input exactly once, in input order.
C4_DedupFirstOccurrence ==
    pc = "filter" =>
        /\ IsSublistAt(fonts, all_fonts, FirstOccurrences(all_fonts))
        /\ \A i \in 1..Len(all_fonts) :
              Cardinality({k \in 1..Len(fonts) : fonts[k].url = all_fonts[i].url}) = 1

\* Two entries share a url but not a family, around an entry with another url.
C4_Witness ==
    /\ pc = "filter"
    /\ Len(all_fonts) = 3
    /\ all_fonts[1].url = all_fonts[3].url
    /\ all_fonts[1].family # all_fonts[3].family
    /\ all_fonts[2].url # all_fonts[1].url
    /\ fonts = <<all_fonts[1], all_fonts[2]>>

NoCategoryFlag(a) == ~a.serif /\ ~a.sans_serif /\ ~a.monospace

\* C5: the selection handed to filter is "all" exactly when --all is given
\* or no category flag is, and otherwise the non-empty set of the flagged
\* categories; filter returns its input unchanged for "all", and for a set
\* exactly the entries whose category is in it, in input order.
C5_FilterAndSelection ==
    [][ /\ (pc = "args" /\ pc' # "args") =>
              /\ categories'.is_none <=> (args.all \/ NoCategoryFlag(args))
              /\ ~categories'.is_none =>
                    /\ categories'.members # {}
                    /\ categories'.members =
                         {c \in {"serif", "sans-serif", "monospace"} :
                             \/ c = "serif" /\ args.serif
                             \/ c = "sans-serif" /\ args.sans_serif
                             \/ c = "monospace" /\ args.monospace}
        /\ (pc = "filter" /\ pc' # "filter") =>
              /\ categories.is_none => fonts' = fonts
              /\ ~categories.is_none =>
                    IsSublistAt(fonts', fonts,
                        {i \in 1..Len(fonts) : fonts[i].category \in categories.members})
      ]_vars

\* No flag at all, and a non-empty list comes out of filter as it went in.
C5_Witness ==
    /\ pc = "filtered"
    /\ ~args.all /\ NoCategoryFlag(args)
    /\ categories.is_none
    /\ Len(all_fonts) = 2 /\ fonts = all_fonts

(***************************************************************************)
(* Claims about collect_fonts_from_page (SpecCollect, SpecCollectFair).    *)
(***************************************************************************)
ImportPositions(text) == {k \in 1..Len(text) : text[k].kind = "import"}
ImportCount(text) == Cardinality(ImportPositions(text))

\* href of the n-th @import directive of a text.
NthImport(text, n) ==
    LET k == CHOOSE k \in ImportPositions(text) :
                 Cardinality({j \in ImportPositions(text) : j < k}) = n - 1
    IN text[k].href

\* The FontFace list of the resource a fetch obtained.
ResourceFonts(e) ==
    IF e.ok /\ e.kind # "page"
    THEN parse_css_for_fonts(site.web[e.url], e.url, Len(site.web[e.url]) + 1)
    ELSE <<>>

\* Directives followed after the stylesheet fetch at position p of the log.
Followed(log, p) == IF log[p].ok THEN ImportCount(site.web[log[p].url]) ELSE 0

\* The log of a finished collection: the page, then each linked stylesheet
\* in order, each successfully fetched one followed by one fetch for each of
\* its @import directives, in order, and by nothing else.
DiscoveryOrder(log) ==
    LET css == SelectSeq(log, LAMBDA e : e.kind = "css")
    IN /\ Len(log) >= 1 /\ log[1] = Fetch(PageUrl, "page", TRUE)
       /\ [i \in 1..Len(css) |-> css[i].url] = CssUrls(site)
       /\ Len(log) >= 2 => log[2].kind = "css"
       /\ \A p \in 2..Len(log) :
             log[p].kind = "css" =>
                LET n == Followed(log, p)
                IN /\ p + n <= Len(log)
                   /\ \A k \in 1..n :
                         /\ log[p + k].kind = "import"
                         /\ log[p + k].url =
                               urljoin(log[p].url, NthImport(site.web[log[p].url], k))
                   /\ p + n + 1 <= Len(log) => log[p + n + 1].kind = "css"

\* C6: once the page is fetched, whatever stylesheet and import fetches
\* fail, collect returns the concatenation in discovery order (inline
\* styles, then each stylesheet followed by its imports) of the FontFace
\* lists of the resources fetched successfully; a failure removes nothing
\* else and stops nothing else.
C6_CollectIsolatesFailures ==
    pc = "dedup" =>
        /\ DiscoveryOrder(fetches)
        /\ all_fonts =
              Concat([i \in 1..Len(site.inline) |->
                         parse_css_for_fonts(site.inline[i], PageUrl,
                                             Len(site.inline[i]) + 1)])
              \o Concat([p \in 1..Len(fetches) |-> ResourceFonts(fetches[p])])
        /\ fonts = all_fonts

\* A failed import followed by a successful one, then a failed stylesheet.
C6_Witness ==
    /\ pc = "dedup"
    /\ Len(fetches) = 5
    /\ fetches[2].kind = "css" /\ fetches[2].ok
    /\ fetches[3].kind = "import" /\ ~fetches[3].ok
    /\ fetches[4].kind = "import" /\ fetches[4].ok
    /\ fetches[5].kind = "css" /\ ~fetches[5].ok
    /\ Len(all_fonts) = 4

\* Fetches allowed so far: the page, the linked stylesheets, and the @import
\* directives of the linked stylesheets fetched successfully.
FetchBudget ==
    LET okcss == SelectSeq(fetches, LAMBDA e : e.kind = "css" /\ e.ok)
        S[i \in 0..Len(okcss)] ==
            IF i = 0 THEN 0 ELSE S[i - 1] + ImportCount(site.web[okcss[i].url])
    IN 1 + Len(CssUrls(site)) + S[Len(okcss)]

\* Steps left, as a number: stylesheets not yet done, then, within the one
\* at hand, @import matches not yet followed.
Variant ==
    LET L == Len(CssUrls(site))
        K == 3 + Cardinality(UNION {ImportPositions(site.web[u]) : u \in DOMAIN site.web})
    IN CASE pc = "fetch_page" -> (L + 2) * K
         [] pc = "css" -> (L + 1 - css_i) * K + K - 1
         [] pc = "imports" -> (L + 1 - css_i) * K + ImportCount(css_text) + 1 - imp_i
         [] OTHER -> 0

\* C10: collection terminates, also on cyclic imports: every step lowers a
\* non-negative count of the work left, the run never issues more than
\* 1 + (linked stylesheets) + (@import directives of the successfully
\* fetched linked stylesheets) fetches, and a finished collection has issued
\* exactly one fetch per linked stylesheet and per such directive.
C10_CollectionTerminates ==
    /\ [][Variant' < Variant]_vars
    /\ [](Variant >= 0)
    /\ [](Len(fetches) <= FetchBudget)
    /\ [](pc = "dedup" => Len(fetches) = FetchBudget)

\* Two stylesheets importing each other, every fetch successful.
C10_Witness ==
    /\ pc = "dedup"
    /\ site.web = Web(<<<<"s2.css">>>>, <<<<"s1.css">>>>)
    /\ Len(site.links) = 2 /\ Len(CssUrls(site)) = 2
    /\ Len(fetches) = 5
    /\ \A p \in 1..5 : fetches[p].ok

(***************************************************************************)
(* Claims about main (Spec).                                               *)
(***************************************************************************)
\* C7: in a run that reaches the download step every font of the final list
\* is attempted, and the exit status is 0 exactly when every attempt
\* succeeded, whatever the conversion step did.
C7_ExitStatusIsDownloadSuccess ==
    (pc = "exit" /\ dl_i >= 1)
    => /\ Len(results) = Len(fonts)
       /\ exit_code = 0 <=> \A i \in 1..Len(results) : results[i]
       /\ exit_code \in {0, 1}

\* Every download succeeded and a conversion failed: the status is 0.
C7_Witness ==
    /\ pc = "exit" /\ dl_i >= 1
    /\ Len(results) >= 2
    /\ \A i \in 1..Len(results) : results[i]
    /\ \E i \in 1..Len(converted) : ~converted[i]
    /\ exit_code = 0

(***************************************************************************)
(* Order of the two post-processing steps (SpecPost).                      *)
(***************************************************************************)
InSelection(f) == categories.is_none \/ f.category \in categories.members

UrlsOf(s) == {s[i].url : i \in 1..Len(s)}

\* The other order: filter first, then deduplicate.
FilterThenDedup == deduplicate_fonts(filter_fonts(all_fonts, categories))

\* Every url that some selected entry refers to has a selected first entry.
FirstEntriesSelected ==
    \A i \in 1..Len(all_fonts) :
        InSelection(all_fonts[i]) =>
            \E j \in FirstOccurrences(all_fonts) :
                /\ all_fonts[j].url = all_fonts[i].url
                /\ InSelection(all_fonts[j])

\* C11 (as stated): the list the run computes, filter(deduplicate(fonts)),
\* equals deduplicate(filter(fonts)) for every accumulated list and every
\* selection, and every url referred to by some discovered entry of a
\* selected category is in the final list.
C11_DedupFilterCommute ==
    pc = "filtered" =>
        /\ fonts = FilterThenDedup
        /\ \A i \in 1..Len(all_fonts) :
              InSelection(all_fonts[i]) => all_fonts[i].url \in UrlsOf(fonts)

\* C11 (amended): the final list is the accumulated list at the positions
\* that hold the first entry of their url and a selected category; it is the
\* part of deduplicate(filter(fonts)) made of such first entries, it equals
\* deduplicate(filter(fonts)) exactly when every url of a selected entry has
\* a selected first entry (always so when the selection is "all"), and a url
\* is in the final list exactly when its first entry is selected.
C11_FirstEntryDecides ==
    pc = "filtered" =>
        /\ IsSublistAt(fonts, all_fonts,
               {i \in FirstOccurrences(all_fonts) : InSelection(all_fonts[i])})
        /\ IsSublistAt(fonts, FilterThenDedup,
               {k \in 1..Len(FilterThenDedup) :
                   \E i \in FirstOccurrences(all_fonts) :
                       all_fonts[i] = FilterThenDedup[k]})
        /\ (fonts = FilterThenDedup) <=> FirstEntriesSelected
        /\ categories.is_none => fonts = FilterThenDedup
        /\ \A i \in FirstOccurrences(all_fonts) :
              (all_fonts[i].url \in UrlsOf(fonts)) <=> InSelection(all_fonts[i])

\* A url first met under an unselected family and again under a selected
\* one, next to another selected entry: the two orders give different lists.
C11_Witness ==
    /\ pc = "filtered"
    /\ Len(all_fonts) = 3
    /\ all_fonts[1].url = all_fonts[2].url
    /\ ~InSelection(all_fonts[1])
    /\ InSelection(all_fonts[2])
    /\ fonts = <<all_fonts[3]>>
    /\ FilterThenDedup = <<all_fonts[2], all_fonts[3]>>

====
